---- MODULE Spec2Model ----
(***************************************************************************)
(* Device sessions, pending-command dispatch and command acknowledgment of *)
(* the socket.io server in src/app.js, with the Command documents of       *)
(* src/models/CommandModel.js.                                             *)
(*                                                                         *)
(* Time is in milliseconds.  An async handler is one action per piece of   *)
(* code between two awaits: the store operation it awaits runs in the      *)
(* action that resumes it.                                                 *)
(***************************************************************************)
EXTENDS Integers, Sequences, FiniteSets, TLC

\* ------------------------------------------------------------------ bounds
NumConns == 2
NumCmds == 2
NumStamps == 2
MaxPasses == 2
MaxAcks == 2
MaxTime == 4000
MaxBeatTime == 90000
BeatTickMs == 15000
TickMs == 2000
BulkCmds == 21

\* ------------------------------------------------------- program constants
PaceMs == 2000
VerifyMs == 3000
QueryLimit == 20

PingMs == 30000

\* A falsy commandId of a command-ack payload (undefined, "", 0).
NoCommandId == 0

\* executedAt of a document that was never given one.
NoDate == -1

\* ------------------------------------------------------------- identifiers
Conns == 1 .. NumConns
CmdIds == 1 .. NumCmds
CreatedAts == { 0 - k : k \in 1 .. NumStamps }

\* A raw identifier is a sequence of characters.
Chars == {"a", "A", "b", "B", " "}

Upper(ch) ==
  CASE ch = "a" -> "A"
    [] ch = "b" -> "B"
    [] OTHER -> ch

RECURSIVE Strip(_)
Strip(s) ==
  IF s = <<>> THEN <<>>
  ELSE IF Head(s) = " " THEN Strip(Tail(s))
  ELSE <<Upper(Head(s))>> \o Strip(Tail(s))

\* The falsy result of normalizeDeviceId.
Invalid == <<>>

\* helpers/deviceId.js: blanks removed, upper case; nothing left is Invalid.
normalizeDeviceId(raw) == Strip(raw)

\* socket.data.deviceId before any assignment.
Undefined == <<"undefined">>

\* handshake.query.deviceId when the query has no such key.
NoQuery == <<"none">>

RawIds == { <<>>, <<" ">>, <<"a">>, <<" ", "A">>, <<"b">>, <<"B", " ">> }

DeviceIds == { <<"A">>, <<"B">> }

\* The private room every socket joins on connection, named by its id.
SocketId(c) == <<"socket", ToString(c)>>

VARIABLES
  status,    \* status[c]: "new" (not yet connected), "open", "closed"
  rooms,     \* rooms[c]: socket.rooms of c
  data,      \* data[c]: socket.data.deviceId
  cmds,      \* the Command collection: id -> document
  queries,   \* register-device handlers suspended at await Command.find
  updates,   \* command-ack handlers suspended at await findByIdAndUpdate
  timers,    \* setTimeout callbacks not yet run
  passes,    \* passes[p]: what the query of the p-th register-device returned
  sent,      \* events written to open connections
  last,      \* the delivery callback that ran last, and when
  nPass,     \* register-device events accepted so far
  nAck,      \* command-ack events with a commandId so far
  now,       \* the clock
  ping,      \* ping[c]: the setInterval of c and the heartbeats it has emitted
  applied    \* the store updates of command-ack, in the order they ran

vars == <<status, rooms, data, cmds, queries, updates, timers, passes, sent, last,
          nPass, nAck, now, ping, applied>>

\* ---------------------------------------------------------------- the store
\* CommandModel.js: done defaults to false, executedAt is absent.
NewCommand(dev, at) ==
  [deviceId |-> dev, createdAt |-> at, done |-> FALSE, executedAt |-> NoDate]

\* The lifecycle state the stored fields encode: done is the only flag, and
\* executedAt is written by every acknowledgment.
State(doc) ==
  IF doc.done THEN "acknowledged"
  ELSE IF doc.executedAt # NoDate THEN "failed"
  ELSE "pending"

\* Command.find({ deviceId, done: false })
FindPending(dev) ==
  { i \in DOMAIN cmds : cmds[i].deviceId = dev /\ cmds[i].done = FALSE }

\* The sort direction reversed: createdAt ascending.
Oldest(P) ==
  { m \in P : \A o \in P : cmds[m].createdAt <= cmds[o].createdAt }

Newest(P) ==
  { m \in P : \A o \in P : cmds[o].createdAt <= cmds[m].createdAt }

\* .sort({ createdAt: -1 }).limit(n): every order the store may return,
\* documents of equal createdAt in any order.
RECURSIVE SortLimit(_, _)
SortLimit(P, n) ==
  IF n = 0 \/ P = {} THEN { <<>> }
  ELSE UNION { { <<m>> \o s : s \in SortLimit(P \ {m}, n - 1) } : m \in Newest(P) }

PendingCommands(dev) == SortLimit(FindPending(dev), QueryLimit)

\* ------------------------------------------------------------------ events
ErrorEvent(c) ==
  [to |-> c, ev |-> "error", pass |-> 0, idx |-> 0, cmd |-> 0]

RegisteredEvent(c, p) ==
  [to |-> c, ev |-> "registered", pass |-> p, idx |-> 0, cmd |-> 0]

CommandEvent(t) ==
  [to |-> t.conn, ev |-> "command", pass |-> t.pass, idx |-> t.idx, cmd |-> t.cmd]

\* socket.emit: written to the transport only while the connection is open.
Emit(c, e) == IF status[c] = "open" THEN sent \cup {e} ELSE sent

\* -------------------------------------------------------------------- Init
NoPass == [conn |-> 0, dev |-> Invalid, sel |-> <<>>, ran |-> "no"]

\* No delivery callback has run yet.
NoDelivery == [pass |-> 0, idx |-> 0, cmd |-> 0, set |-> 0, at |-> 0, to |-> 0]

\* No setInterval yet.
NoPing == [armed |-> FALSE, due |-> 0, at |-> NoDate, n |-> 0]

\* setInterval(..., 30000) just created: first due one period from now.
Interval(due) == [armed |-> TRUE, due |-> due, at |-> NoDate, n |-> 0]

InitCommon ==
  /\ status = [c \in Conns |-> "new"]
  /\ rooms = [c \in Conns |-> {}]
  /\ data = [c \in Conns |-> Undefined]
  /\ queries = {}
  /\ updates = {}
  /\ timers = {}
  /\ passes = [p \in 1 .. MaxPasses |-> NoPass]
  /\ sent = {}
  /\ last = NoDelivery
  /\ nPass = 0
  /\ nAck = 0
  /\ now = 0
  /\ ping = [c \in Conns |-> NoPing]
  /\ applied = <<>>

\* Documents are numbered in the order of their creation.
Init ==
  /\ InitCommon
  /\ cmds \in [CmdIds -> { NewCommand(d, a) : d \in DeviceIds, a \in CreatedAts }]
  /\ \A i, j \in CmdIds : i < j => cmds[i].createdAt <= cmds[j].createdAt

\* ----------------------------------------------------------------- actions
\* io.on('connection'): a truthy handshake deviceId is normalized and joined
\* without a validity check.
Connect(c, q) ==
  /\ status[c] = "new"
  /\ status' = [status EXCEPT ![c] = "open"]
  /\ IF q # NoQuery /\ q # <<>>
       THEN /\ data' = [data EXCEPT ![c] = normalizeDeviceId(q)]
            /\ rooms' = [rooms EXCEPT ![c] = {SocketId(c), normalizeDeviceId(q)}]
       ELSE /\ rooms' = [rooms EXCEPT ![c] = {SocketId(c)}]
            /\ UNCHANGED data
  /\ ping' = [ping EXCEPT ![c] = Interval(now + PingMs)]
  /\ UNCHANGED <<cmds, queries, updates, timers, passes, sent, nPass, nAck, now, last, applied>>

\* The cleanup loop forgotten: no room is left.
KeptRoomsAll(c) == rooms[c]

\* currentRooms.forEach(room => { if (room !== socket.id) socket.leave(room) }):
\* the rooms left over.
KeptRooms(c) == { room \in rooms[c] : room = SocketId(c) }

\* The validity check forgotten: an Invalid id is joined like any other.
RegisterDeviceUnchecked(c, raw) ==
  LET deviceId == normalizeDeviceId(raw) IN
  /\ status[c] = "open"
  /\ nPass < MaxPasses
  /\ rooms' = [rooms EXCEPT ![c] = KeptRooms(c) \cup {deviceId}]
  /\ data' = [data EXCEPT ![c] = deviceId]
  /\ nPass' = nPass + 1
  /\ sent' = Emit(c, RegisteredEvent(c, nPass + 1))
  /\ queries' = queries \cup {[conn |-> c, dev |-> deviceId, pass |-> nPass + 1]}
  /\ UNCHANGED <<status, cmds, updates, timers, passes, nAck, now, last, ping, applied>>

\* socket.on('register-device'), up to await Command.find.
RegisterDevice(c, raw) ==
  LET deviceId == normalizeDeviceId(raw) IN
  /\ status[c] = "open"
  /\ IF deviceId = Invalid
       THEN /\ sent' = Emit(c, ErrorEvent(c))
            /\ UNCHANGED <<rooms, data, queries, nPass>>
       ELSE /\ nPass < MaxPasses
            /\ rooms' = [rooms EXCEPT ![c] = KeptRooms(c) \cup {deviceId}]
            /\ data' = [data EXCEPT ![c] = deviceId]
            /\ nPass' = nPass + 1
            /\ sent' = Emit(c, RegisteredEvent(c, nPass + 1))
            /\ queries' = queries \cup {[conn |-> c, dev |-> deviceId, pass |-> nPass + 1]}
  /\ UNCHANGED <<status, cmds, updates, timers, passes, nAck, now, last, ping, applied>>

NoDoc == NewCommand(Invalid, 0)

\* The index left out of the delay: every callback is due at once.
DeliveryTimersAtOnce(q, sel) ==
  { [kind |-> "deliver", conn |-> q.conn, dev |-> q.dev, pass |-> q.pass,
     idx |-> k - 1, cmd |-> sel[k], snap |-> cmds[sel[k]],
     set |-> now, due |-> now] : k \in 1 .. Len(sel) }

\* The loop stopping one short: the last command gets no timer.
DeliveryTimersButLast(q, sel) ==
  { [kind |-> "deliver", conn |-> q.conn, dev |-> q.dev, pass |-> q.pass,
     idx |-> k - 1, cmd |-> sel[k], snap |-> cmds[sel[k]],
     set |-> now, due |-> now + (k - 1) * PaceMs] : k \in 1 .. Len(sel) - 1 }

\* pendingCommands.forEach((cmd, index) => setTimeout(..., index * 2000))
DeliveryTimers(q, sel) ==
  { [kind |-> "deliver", conn |-> q.conn, dev |-> q.dev, pass |-> q.pass,
     idx |-> k - 1, cmd |-> sel[k], snap |-> cmds[sel[k]],
     set |-> now, due |-> now + (k - 1) * PaceMs] : k \in 1 .. Len(sel) }

\* setTimeout(async () => { ... fetchSockets ... }, 3000)
VerifyTimer(q) ==
  [kind |-> "verify", conn |-> q.conn, dev |-> q.dev, pass |-> q.pass,
   idx |-> 0, cmd |-> 0, snap |-> NoDoc, set |-> now, due |-> now + VerifyMs]

\* register-device resumed after await Command.find: the query runs and its
\* result is scheduled; the verification timer is set in either case.
DispatchQuery(q, sel) ==
  /\ q \in queries
  /\ sel \in PendingCommands(q.dev)
  /\ queries' = queries \ {q}
  /\ timers' = timers \cup DeliveryTimers(q, sel) \cup {VerifyTimer(q)}
  /\ passes' = [passes EXCEPT ![q.pass] =
       [conn |-> q.conn, dev |-> q.dev, sel |-> sel, ran |-> "found"]]
  /\ UNCHANGED <<status, rooms, data, cmds, updates, sent, nPass, nAck, now, last, ping, applied>>

\* The catch reporting the failure to the device.
DispatchQueryFailsLoudly(q) ==
  /\ q \in queries
  /\ queries' = queries \ {q}
  /\ timers' = timers \cup {VerifyTimer(q)}
  /\ passes' = [passes EXCEPT ![q.pass] =
       [conn |-> q.conn, dev |-> q.dev, sel |-> <<>>, ran |-> "failed"]]
  /\ sent' = Emit(q.conn, ErrorEvent(q.conn))
  /\ UNCHANGED <<status, rooms, data, cmds, updates, nPass, nAck, now, last, ping, applied>>

\* await Command.find rejects: the catch logs, nothing is scheduled for delivery.
DispatchQueryFails(q) ==
  /\ q \in queries
  /\ queries' = queries \ {q}
  /\ timers' = timers \cup {VerifyTimer(q)}
  /\ passes' = [passes EXCEPT ![q.pass] =
       [conn |-> q.conn, dev |-> q.dev, sel |-> <<>>, ran |-> "failed"]]
  /\ UNCHANGED <<status, rooms, data, cmds, updates, sent, nPass, nAck, now, last, ping, applied>>

\* The event loop runs expired timers in the order of their expiry.
Expired(t) ==
  /\ t \in timers
  /\ t.due <= now
  /\ \A o \in timers : t.due <= o.due

\* The callback marking what it sends as done.
FireDeliverMarksDone(t) ==
  /\ Expired(t)
  /\ t.kind = "deliver"
  /\ timers' = timers \ {t}
  /\ sent' = Emit(t.conn, CommandEvent(t))
  /\ cmds' = [cmds EXCEPT ![t.cmd].done = TRUE]
  /\ last' = [pass |-> t.pass, idx |-> t.idx, cmd |-> t.cmd, set |-> t.set, at |-> now,
               to |-> IF status[t.conn] = "open" THEN t.conn ELSE 0]
  /\ UNCHANGED <<status, rooms, data, queries, updates, passes, nPass, nAck, now, ping, applied>>

\* The staggered-delivery callback: socket.emit('command', ...) on the socket
\* that registered, whatever its rooms are by now.
FireDeliver(t) ==
  /\ Expired(t)
  /\ t.kind = "deliver"
  /\ timers' = timers \ {t}
  /\ sent' = Emit(t.conn, CommandEvent(t))
  /\ last' = [pass |-> t.pass, idx |-> t.idx, cmd |-> t.cmd, set |-> t.set, at |-> now,
               to |-> IF status[t.conn] = "open" THEN t.conn ELSE 0]
  /\ UNCHANGED <<status, rooms, data, cmds, queries, updates, passes, nPass, nAck, now, ping, applied>>

\* io.in(deviceId).fetchSockets()
SocketsInRoom(dev) == { c \in Conns : dev \in rooms[c] }

\* The verification sending the commands again when it finds the room empty.
FireVerifyRetries(t) ==
  /\ Expired(t)
  /\ t.kind = "verify"
  /\ timers' = (timers \ {t}) \cup
       (IF SocketsInRoom(t.dev) = {}
          THEN DeliveryTimers([conn |-> t.conn, dev |-> t.dev, pass |-> t.pass],
                              passes[t.pass].sel)
          ELSE {})
  /\ UNCHANGED <<status, rooms, data, cmds, queries, updates, passes, sent, nPass, nAck, now, last, ping, applied>>

\* The room-verification callback: it counts the room and logs.
FireVerify(t) ==
  /\ Expired(t)
  /\ t.kind = "verify"
  /\ Cardinality(SocketsInRoom(t.dev)) >= 0
  /\ timers' = timers \ {t}
  /\ UNCHANGED <<status, rooms, data, cmds, queries, updates, passes, sent, nPass, nAck, now, last, ping, applied>>

\* socket.on('command-ack'), up to await findByIdAndUpdate: without a
\* commandId nothing is asked of the store.
CommandAck(c, commandId, success) ==
  /\ status[c] = "open"
  /\ IF commandId # NoCommandId
       THEN /\ nAck < MaxAcks
            /\ nAck' = nAck + 1
            /\ updates' = updates \cup {[id |-> commandId, success |-> success, n |-> nAck + 1]}
       ELSE UNCHANGED <<updates, nAck>>
  /\ UNCHANGED <<status, rooms, data, cmds, queries, timers, passes, sent, last, nPass, now, ping, applied>>

\* The update made conditional on the stored state: the first outcome stays.
AckedDocFirstWins(doc, success) ==
  IF doc.done = FALSE /\ doc.executedAt = NoDate
    THEN [doc EXCEPT !.done = success, !.executedAt = now]
    ELSE doc

\* executedAt left out of the update.
AckedDocNoDate(doc, success) == [doc EXCEPT !.done = success]

\* The document findByIdAndUpdate writes: done and executedAt, unconditionally.
AckedDoc(doc, success) ==
  [doc EXCEPT !.done = success, !.executedAt = now]

\* The update run with upsert: an unknown id gets a new document.
FindByIdAndUpsert(id, success) ==
  [i \in DOMAIN cmds \cup {id} |->
     IF i = id
       THEN AckedDoc(IF id \in DOMAIN cmds THEN cmds[id] ELSE NoDoc, success)
       ELSE cmds[i]]

\* Command.findByIdAndUpdate(commandId, {...}): an unknown id updates nothing.
FindByIdAndUpdate(id, success) ==
  IF id \in DOMAIN cmds
    THEN [cmds EXCEPT ![id] = AckedDoc(cmds[id], success)]
    ELSE cmds

\* command-ack resumed after the update ran.
ApplyAck(u) ==
  /\ u \in updates
  /\ updates' = updates \ {u}
  /\ cmds' = FindByIdAndUpdate(u.id, u.success)
  /\ applied' = Append(applied, u)
  /\ UNCHANGED <<status, rooms, data, queries, timers, passes, sent, nPass, nAck, now, last, ping>>

\* await findByIdAndUpdate rejects: the catch logs.
ApplyAckFails(u) ==
  /\ u \in updates
  /\ updates' = updates \ {u}
  /\ UNCHANGED <<status, rooms, data, cmds, queries, timers, passes, sent, nPass, nAck, now, last, ping, applied>>

\* clearInterval(pingInterval): the timer is gone, what it emitted stays.
Cleared(p) == [p EXCEPT !.armed = FALSE, !.due = 0]

\* The close leaving socket.rooms as it is.
DisconnectKeepsRooms(c) ==
  /\ status[c] = "open"
  /\ status' = [status EXCEPT ![c] = "closed"]
  /\ ping' = [ping EXCEPT ![c] = Cleared(ping[c])]
  /\ UNCHANGED <<rooms, data, cmds, queries, updates, timers, passes, sent, nPass, nAck,
                 now, last, applied>>

\* The transport closes the connection: socket.io empties socket.rooms, then
\* both 'disconnect' handlers run (a log line, clearInterval).
Disconnect(c) ==
  /\ status[c] = "open"
  /\ status' = [status EXCEPT ![c] = "closed"]
  /\ rooms' = [rooms EXCEPT ![c] = {}]
  /\ ping' = [ping EXCEPT ![c] = Cleared(ping[c])]
  /\ UNCHANGED <<data, cmds, queries, updates, timers, passes, sent, nPass, nAck, now, last, applied>>

\* setTimeout in place of setInterval: the callback runs once.
FirePingOnce(c) ==
  /\ ping[c].armed
  /\ ping[c].due <= now
  /\ ping' = [ping EXCEPT ![c] =
       IF status[c] = "open"
         THEN [armed |-> FALSE, due |-> 0, at |-> now, n |-> ping[c].n + 1]
         ELSE Cleared(ping[c])]
  /\ UNCHANGED <<status, rooms, data, cmds, queries, updates, timers, passes, sent, last,
                 nPass, nAck, now, applied>>

\* The pingInterval callback: socket.emit('ping') on a connected socket and
\* the interval repeats one period after this run; clearInterval otherwise.
FirePing(c) ==
  /\ ping[c].armed
  /\ ping[c].due <= now
  /\ ping' = [ping EXCEPT ![c] =
       IF status[c] = "open"
         THEN [armed |-> TRUE, due |-> now + PingMs, at |-> now, n |-> ping[c].n + 1]
         ELSE Cleared(ping[c])]
  /\ UNCHANGED <<status, rooms, data, cmds, queries, updates, timers, passes, sent, last,
                 nPass, nAck, now, applied>>

\* Time passes by half a heartbeat period; an expired interval may run late.
BeatTick ==
  /\ now + BeatTickMs <= MaxBeatTime
  /\ now' = now + BeatTickMs
  /\ UNCHANGED <<status, rooms, data, cmds, queries, updates, timers, passes, sent,
                 nPass, nAck, last, ping, applied>>

\* Time passes; an expired timer may run late.
Tick ==
  /\ now + TickMs <= MaxTime
  /\ now' = now + TickMs
  /\ UNCHANGED <<status, rooms, data, cmds, queries, updates, timers, passes, sent,
                 nPass, nAck, last, ping, applied>>

\* The connection events of the connections in C.
SessionStep(C) ==
  \/ \E c \in C, q \in RawIds \cup {NoQuery} : Connect(c, q)
  \/ \E c \in C, raw \in RawIds : RegisterDevice(c, raw)
  \/ \E c \in C : Disconnect(c)

\* The resumed register-device handlers and the timer callbacks.
DispatchStep ==
  \/ \E q \in queries : \E sel \in PendingCommands(q.dev) : DispatchQuery(q, sel)
  \/ \E q \in queries : DispatchQueryFails(q)
  \/ \E t \in timers : FireDeliver(t)
  \/ \E t \in timers : FireVerify(t)

\* The command-ack events of the connections in C and their store updates.
AckStep(C) ==
  \/ \E c \in C, id \in 0 .. NumCmds + 1, success \in BOOLEAN : CommandAck(c, id, success)
  \/ \E u \in updates : ApplyAck(u)
  \/ \E u \in updates : ApplyAckFails(u)

Next ==
  \/ SessionStep(Conns) \/ DispatchStep \/ AckStep(Conns) \/ Tick
  \/ \E c \in Conns : FirePing(c)
  \/ BeatTick

Spec == Init /\ [][Next]_vars

\* Sessions and dispatch while no acknowledgment arrives.  The connections
\* are made before the clock moves: when a connection was made matters to its
\* heartbeat alone, which SpecBeat follows.
NextSession ==
  \/ \E c \in Conns, q \in RawIds \cup {NoQuery} : now = 0 /\ Connect(c, q)
  \/ \E c \in Conns, raw \in RawIds : RegisterDevice(c, raw)
  \/ \E c \in Conns : Disconnect(c)
  \/ DispatchStep
  \/ Tick

SpecSession == Init /\ [][NextSession]_vars

\* Acknowledgments while no device registers.
NextAck ==
  \/ \E c \in Conns, q \in RawIds \cup {NoQuery} : Connect(c, q)
  \/ \E c \in Conns : Disconnect(c)
  \/ AckStep(Conns)
  \/ Tick

SpecAck == Init /\ [][NextAck]_vars

\* Every event of one connection while the clock stands still: the timers of
\* delay 0 run, the later ones stay pending.
NextRetry ==
  \/ SessionStep({1})
  \/ \E q \in queries : \E sel \in PendingCommands(q.dev) : DispatchQuery(q, sel)
  \/ \E q \in queries : DispatchQueryFails(q)
  \/ \E t \in timers : FireDeliver(t)
  \/ AckStep({1})

SpecRetry == Init /\ [][NextRetry]_vars

\* The sessions of all connections and the deliveries that are due at once,
\* while the clock stands still and no acknowledgment arrives.
NextJoin ==
  \/ SessionStep(Conns)
  \/ \E q \in queries : \E sel \in PendingCommands(q.dev) : DispatchQuery(q, sel)
  \/ \E q \in queries : DispatchQueryFails(q)
  \/ \E t \in timers : FireDeliver(t)

SpecJoin == Init /\ [][NextJoin]_vars

\* Connections and their heartbeats over three periods, while no device
\* registers and no acknowledgment arrives.
NextBeat ==
  \/ \E c \in Conns, q \in RawIds \cup {NoQuery} : Connect(c, q)
  \/ \E c \in Conns : Disconnect(c)
  \/ \E c \in Conns : FirePing(c)
  \/ BeatTick

\* The event loop runs every expired interval callback.
SpecBeat == Init /\ [][NextBeat]_vars /\ \A c \in Conns : WF_vars(FirePing(c))

\* A backlog: n commands numbered in the order of their creation, all of
\* device A but, with other = 1, the newest; with tie = 1 the two oldest
\* share their createdAt.
Backlog(n, tie, other) ==
  [i \in 1 .. n |->
     NewCommand(IF other = 1 /\ i = n THEN <<"B">> ELSE <<"A">>,
                IF tie = 1 /\ i = 1 THEN 1 - n ELSE i - n - 1)]

InitBulk ==
  /\ InitCommon
  /\ \E n \in QueryLimit - 1 .. BulkCmds, tie \in {0, 1}, other \in {0, 1} :
       cmds = Backlog(n, tie, other)

\* Time passes up to the next expiry, once the expired timers have run.
Advance ==
  /\ timers # {}
  /\ \A t \in timers : t.due > now
  /\ \E t \in timers : (\A o \in timers : t.due <= o.due) /\ now' = t.due
  /\ UNCHANGED <<status, rooms, data, cmds, queries, updates, timers, passes, sent,
                 last, nPass, nAck, ping, applied>>

\* No dispatch pass is under way.
Drained == queries = {} /\ timers = {}

\* Every event of one connection, the timers run as they expire, while the
\* device does not register in the middle of a pass.
NextNoRetry ==
  \/ \E q \in RawIds \cup {NoQuery} : Connect(1, q)
  \/ \E raw \in RawIds : Drained /\ RegisterDevice(1, raw)
  \/ Disconnect(1)
  \/ DispatchStep
  \/ AckStep({1})
  \/ Advance

SpecNoRetry == Init /\ [][NextNoRetry]_vars

\* One connection and its dispatch passes over a backlog, while no
\* acknowledgment arrives and the device does not register in the middle of
\* a pass.
NextBulk ==
  \/ \E q \in RawIds \cup {NoQuery} : Connect(1, q)
  \/ \E raw \in RawIds : Drained /\ RegisterDevice(1, raw)
  \/ Disconnect(1)
  \/ DispatchStep
  \/ Advance

\* The store answers every query, by a result or by a failure, the event loop
\* runs every expired timer, and time does not stop.
SpecBulk == InitBulk /\ [][NextBulk]_vars /\ WF_vars(DispatchStep) /\ WF_vars(Advance)

\* ------------------------------------------------------------------ claims
\* The device rooms of a connection: its rooms but its own.
DeviceRooms(c) == rooms[c] \ {SocketId(c)}

\* Both register-device events came from connection c, under different ids.
RegisteredTwice(c) ==
  /\ status[c] = "open"
  /\ passes[1].ran # "no" /\ passes[1].conn = c
  /\ passes[2].ran # "no" /\ passes[2].conn = c
  /\ passes[1].dev # passes[2].dev

\* C1: in every reachable state each connection is a member of at most one
\* device room, its own socket.id room not counted.
C1_AtMostOneDeviceRoom == \A c \in Conns : Cardinality(DeviceRooms(c)) <= 1

C1_Witness ==
  \E c \in Conns : RegisteredTwice(c) /\ Cardinality(DeviceRooms(c)) = 1

\* C2: an open connection is a member of the room of the device id it gave
\* last (by register-device or by the handshake query) and of no other
\* device room; after registering A then B it is in B's room and not in A's.
C2_MigratesToLastDevice ==
  \A c \in Conns :
    (status[c] = "open" /\ data[c] # Undefined) =>
      \A d \in DeviceIds \cup {Invalid} : (c \in SocketsInRoom(d)) <=> (d = data[c])

C2_Witness ==
  \E c \in Conns :
    /\ RegisteredTwice(c)
    /\ c \in SocketsInRoom(passes[2].dev)
    /\ c \notin SocketsInRoom(passes[1].dev)

\* The state an acknowledgment of the given outcome stands for.
Outcome(success) == IF success THEN "acknowledged" ELSE "failed"

\* C3: a terminal state is set at most once: an acknowledged or failed
\* command keeps its state under every later acknowledgment.
C3_TerminalSetOnce ==
  [][\A i \in DOMAIN cmds :
       State(cmds[i]) # "pending" => State(cmds'[i]) = State(cmds[i])]_vars

\* C4: a command-ack of an existing command leaves it acknowledged with
\* executedAt set when success is true, and failed, which is not pending,
\* when success is false.
C4_AckSetsOutcome ==
  [][\A u \in updates :
       (ApplyAck(u) /\ u.id \in DOMAIN cmds) =>
         /\ State(cmds'[u.id]) = Outcome(u.success)
         /\ State(cmds'[u.id]) # "pending"
         /\ cmds'[u.id].executedAt # NoDate]_vars

C4_Witness ==
  /\ nAck = 2
  /\ updates = {}
  /\ \E i, j \in DOMAIN cmds :
       /\ State(cmds[i]) = "acknowledged" /\ cmds[i].executedAt # NoDate
       /\ State(cmds[j]) = "failed"

\* C5: a command-ack applied to a command that already holds the same
\* outcome changes no field of the stored command.
C5_SameAckIsNoOp ==
  [][\A u \in updates :
       (ApplyAck(u) /\ u.id \in DOMAIN cmds /\ State(cmds[u.id]) = Outcome(u.success))
         => cmds' = cmds]_vars

\* C6: every command a dispatch pass selects was pending when the query ran:
\* none was acknowledged or failed.
C6_OnlyPendingSelected ==
  \A t \in timers : t.kind = "deliver" => State(t.snap) = "pending"

\* The delivery timers of pass p not yet run.
Waiting(p) == { t \in timers : t.kind = "deliver" /\ t.pass = p }

EmittedBy(p) ==
  { e.cmd : e \in { x \in sent : x.ev = "command" /\ x.pass = p /\ x.to = passes[p].conn } }

\* The pending commands of dev with fewer than QueryLimit others at least as new.
AmongNewest(dev) ==
  { i \in FindPending(dev) :
      Cardinality({ j \in FindPending(dev) \ {i} :
                      cmds[j].createdAt >= cmds[i].createdAt }) < QueryLimit }

\* What pass p still owes its connection.
Owed(p) ==
  IF passes[p].ran = "found" /\ status[passes[p].conn] = "open"
    THEN AmongNewest(passes[p].dev) \ EmittedBy(p)
    ELSE {}

\* C8 (amended): when the pending query of a register-device for D has
\* succeeded, every command among the 20 newest pending for D is eventually
\* emitted to the registering connection, unless that connection closes.
C8_NewestEventuallyEmitted == []<>(\A p \in DOMAIN passes : Owed(p) = {})

\* A pass over more than 20 pending commands has run all its timers on an
\* open connection.
C8_Witness ==
  \E p \in DOMAIN passes :
    /\ passes[p].ran = "found"
    /\ status[passes[p].conn] = "open"
    /\ Cardinality(FindPending(passes[p].dev)) > QueryLimit
    /\ Waiting(p) = {}
    /\ Cardinality(EmittedBy(p)) = QueryLimit

\* C8 as stated: once the pass of a registered, still open connection has
\* run, every command pending for its device has been emitted to it.
C8_AllPendingEmitted ==
  \A p \in DOMAIN passes :
    (passes[p].ran # "no" /\ Waiting(p) = {} /\ status[passes[p].conn] = "open") =>
      FindPending(passes[p].dev) \subseteq EmittedBy(p)

\* The commands of a sequence.
Range(seq) == { seq[k] : k \in 1 .. Len(seq) }

\* C9: a register-device schedules at most 20 commands, all of them pending
\* for its device, and all the pending ones or, of more than 20, 20 that are
\* at least as new as every one left out.
C9_AtMostNewest20 ==
  \A p \in DOMAIN passes : passes[p].ran = "found" =>
    LET sel == passes[p].sel
        P == FindPending(passes[p].dev)
    IN /\ Len(sel) <= QueryLimit
       /\ Cardinality(Range(sel)) = Len(sel)
       /\ Range(sel) \subseteq P
       /\ Cardinality(P) <= QueryLimit => Range(sel) = P
       /\ Cardinality(P) > QueryLimit => Len(sel) = QueryLimit
       /\ \A i \in Range(sel), j \in P \ Range(sel) : cmds[i].createdAt >= cmds[j].createdAt
       /\ Cardinality(Waiting(p)) <= QueryLimit
       /\ \A t \in Waiting(p) : t.idx < Len(sel) /\ sel[t.idx + 1] = t.cmd

\* The query has just returned 20 of more than 20 pending commands.
C9_Witness ==
  \E p \in DOMAIN passes :
    /\ passes[p].ran = "found"
    /\ Cardinality(FindPending(passes[p].dev)) > QueryLimit
    /\ Cardinality(Waiting(p)) = QueryLimit
    /\ \E j \in FindPending(passes[p].dev) \ Range(passes[p].sel) :
         \E i \in Range(passes[p].sel) : cmds[i].createdAt = cmds[j].createdAt

\* The spacing of C7 alone, whatever the timestamps: consecutive emissions of
\* a pass are at least 2000 ms apart.  A callback run late breaks it.
C7_Spaced ==
  [][\A t \in timers :
       (FireDeliver(t) /\ last.pass = t.pass /\ last.to # 0 /\ status[t.conn] = "open") =>
         now - last.at >= PaceMs]_vars

\* C8 as stated, of the passes whose query succeeded alone.  A backlog of
\* more than 20 pending commands breaks it.
C8_AllPendingEmittedWhenFound ==
  \A p \in DOMAIN passes :
    (passes[p].ran = "found" /\ Waiting(p) = {} /\ status[passes[p].conn] = "open") =>
      FindPending(passes[p].dev) \subseteq EmittedBy(p)

\* C10: connection, registration, dispatch (query, emission, verification)
\* and disconnect leave every stored command as it is.
C10_StoreUntouched == [][cmds' = cmds]_vars

\* A command emitted by both passes, to two connections, is still pending.
C10_Witness ==
  \E e1, e2 \in sent :
    /\ e1.ev = "command" /\ e2.ev = "command"
    /\ e1.pass = 1 /\ e2.pass = 2
    /\ e1.to # e2.to
    /\ e1.cmd = e2.cmd
    /\ State(cmds[e1.cmd]) = "pending"
    /\ status[e1.to] = "closed"
\* C11: a register-device whose raw id normalizes to Invalid emits an error
\* event to its connection and nothing else, leaves every room membership
\* and registered deviceId as it was, starts no query and sets no timer, and
\* leaves the connection open.
C11_InvalidRegisterRejected ==
  [][\A c \in Conns, raw \in RawIds :
       (RegisterDevice(c, raw) /\ normalizeDeviceId(raw) = Invalid) =>
         /\ \E e \in sent' : e.to = c /\ e.ev = "error"
         /\ \A e \in sent' \ sent : e.to = c /\ e.ev = "error"
         /\ rooms' = rooms
         /\ data' = data
         /\ queries' = queries
         /\ timers' = timers
         /\ status' = status]_vars

\* A connection that gave no device id but an invalid one: it has the error
\* event, is open, and is in no room but its own.
C11_Witness ==
  \E c \in Conns :
    /\ status[c] = "open"
    /\ \E e \in sent : e.to = c /\ e.ev = "error"
    /\ data[c] = Undefined
    /\ rooms[c] = {SocketId(c)}
    /\ \A e \in sent : e.to = c => e.ev = "error"
    /\ \A q \in queries : q.conn # c

\* C12: a register-device for a valid id D joins room D and emits the
\* registered confirmation before the query is answered; the failure of the
\* query changes no room, no connection status and emits nothing, and the
\* pass it belongs to has no delivery timer and emits no command, then or
\* later.
C12_QueryFailureAbortsDispatchOnly ==
  /\ [][\A c \in Conns, raw \in RawIds :
         (RegisterDevice(c, raw) /\ normalizeDeviceId(raw) # Invalid) =>
           /\ c \in {x \in Conns : normalizeDeviceId(raw) \in rooms'[x]}
           /\ \E e \in sent' : e.to = c /\ e.ev = "registered" /\ e.pass = nPass'
           /\ \E q \in queries' : q.conn = c /\ q.pass = nPass']_vars
  /\ [][\A q \in queries : DispatchQueryFails(q) =>
         /\ rooms' = rooms
         /\ status' = status
         /\ data' = data
         /\ sent' = sent
         /\ \E e \in sent : e.to = q.conn /\ e.ev = "registered" /\ e.pass = q.pass
         /\ (status[q.conn] = "open" /\ data[q.conn] = q.dev) => q.conn \in SocketsInRoom(q.dev)]_vars
  /\ [](\A p \in DOMAIN passes : passes[p].ran = "failed" =>
         /\ Waiting(p) = {}
         /\ \A e \in sent : e.pass = p => e.ev = "registered")

\* The query of a registered connection failed; the connection is open, in
\* the room of its device, confirmed, and no command was emitted.
C12_Witness ==
  \E p \in DOMAIN passes :
    /\ passes[p].ran = "failed"
    /\ status[passes[p].conn] = "open"
    /\ passes[p].conn \in SocketsInRoom(passes[p].dev)
    /\ FindPending(passes[p].dev) # {}
    /\ \E e \in sent : e.to = passes[p].conn /\ e.ev = "registered" /\ e.pass = p
    /\ \A e \in sent : e.ev # "command" /\ e.ev # "error"
    /\ queries = {}

\* C13: a command-ack without a commandId asks nothing of the store; with
\* one, the handler changes nothing until the update runs; the update of an
\* unknown id, and an update that fails, leave every stored command as it is
\* and create none; none of these steps emits anything, closes a connection
\* or changes a room.
C13_UnknownAckChangesNothing ==
  [][/\ \A c \in Conns, id \in 0 .. NumCmds + 1, success \in BOOLEAN :
          CommandAck(c, id, success) =>
            /\ cmds' = cmds /\ sent' = sent /\ status' = status /\ rooms' = rooms
            /\ id = NoCommandId => updates' = updates
     /\ \A u \in updates :
          ((ApplyAck(u) /\ u.id \notin DOMAIN cmds) \/ ApplyAckFails(u)) =>
            /\ cmds' = cmds /\ sent' = sent /\ status' = status /\ rooms' = rooms]_vars

\* Two acknowledgments were handled, one of an unknown id whose update ran
\* and one whose update failed; every command is still pending and the
\* connection that sent them is open in its room.
C13_Witness ==
  /\ nAck = 2
  /\ updates = {}
  /\ Len(applied) = 1
  /\ applied[1].id \notin DOMAIN cmds
  /\ \A i \in DOMAIN cmds : State(cmds[i]) = "pending"
  /\ sent = {}
  /\ \E c \in Conns : status[c] = "open" /\ DeviceRooms(c) # {}

\* C14: a closed connection is in no room, in the state after the disconnect
\* and in every later one: it is not among the members of the device it was
\* registered under, nor of any other.
C14_ClosedIsInNoRoom ==
  \A c \in Conns : status[c] = "closed" =>
    /\ rooms[c] = {}
    /\ \A d \in DeviceIds \cup {Invalid, data[c]} : c \notin SocketsInRoom(d)

\* A connection registered under a device, was sent a command and closed;
\* the other connection registered under the same device afterwards.
C14_Witness ==
  \E c \in Conns, o \in Conns :
    /\ status[c] = "closed"
    /\ data[c] \in DeviceIds
    /\ \E e \in sent : e.to = c /\ e.ev = "command"
    /\ o # c /\ status[o] = "open"
    /\ SocketsInRoom(data[c]) = {o}
    /\ queries = {}

\* C15: a connection has its heartbeat interval exactly while it is open; a
\* heartbeat is emitted only by that interval, on an open connection, no
\* earlier than 30000 ms after the connection or the previous heartbeat, and
\* the interval is set again one period later; a closed connection has no
\* interval and emits no heartbeat; an interval that is due runs.
C15_HeartbeatWhileOpen ==
  /\ [](\A c \in Conns : ping[c].armed <=> status[c] = "open")
  /\ [][\A c \in Conns : ping'[c].n # ping[c].n =>
         /\ status[c] = "open" /\ ping[c].armed
         /\ now >= ping[c].due
         /\ ping[c].at # NoDate => now - ping[c].at >= PingMs
         /\ ping'[c] = [armed |-> TRUE, due |-> now + PingMs, at |-> now, n |-> ping[c].n + 1]]_vars
  /\ [][\A c \in Conns : status[c] = "closed" => ping'[c] = ping[c]]_vars
  /\ \A c \in Conns :
       (ping[c].armed /\ ping[c].due <= now) ~> (~ping[c].armed \/ ping[c].due > now)

\* A connection emitted two heartbeats, closed, and a whole period has
\* passed since without another.
C15_Witness ==
  \E c \in Conns :
    /\ status[c] = "closed"
    /\ ping[c].n = 2
    /\ ~ping[c].armed
    /\ now >= ping[c].at + PingMs
\* C16: a delivery callback emits the command of device D to a connection
\* only if that connection is a member of D's room when the callback runs.
C16_DeliveryRechecksMembership ==
  [][\A t \in timers :
       (FireDeliver(t) /\ sent' # sent) => t.conn \in SocketsInRoom(t.dev)]_vars

\* C17: a command delivered by a pass for device D is emitted to every
\* connection that is a member of D's room when the callback runs.
C17_DeliveryFansOut ==
  [][\A t \in timers :
       (FireDeliver(t) /\ t.conn \in SocketsInRoom(t.dev)) =>
         \A c \in SocketsInRoom(t.dev) :
           \E e \in sent' : e.ev = "command" /\ e.to = c /\ e.cmd = t.cmd]_vars
\* The updates applied to command i, by their place in the order of running.
AppliedTo(i) == { k \in 1 .. Len(applied) : applied[k].id = i }

\* C18: a stored command that updates were applied to holds the outcome of
\* the one that ran last, whatever the earlier ones said and whatever the
\* order the acknowledgments arrived in.
C18_LastWriteWins ==
  \A i \in DOMAIN cmds : AppliedTo(i) # {} =>
    LET k == CHOOSE k \in AppliedTo(i) : \A o \in AppliedTo(i) : o <= k
    IN /\ cmds[i].done = applied[k].success
       /\ State(cmds[i]) = Outcome(applied[k].success)

\* Two conflicting acknowledgments of one command, the success one arrived
\* first and its update ran last, or the other way round: the command holds
\* the outcome of the update that ran last.
C18_Witness ==
  /\ Len(applied) = 2
  /\ applied[1].id = applied[2].id
  /\ applied[1].id \in DOMAIN cmds
  /\ applied[1].success # applied[2].success
  /\ applied[1].n > applied[2].n
  /\ State(cmds[applied[1].id]) = Outcome(applied[2].success)
  /\ State(cmds[applied[1].id]) = "failed"
\* C19: a delivery timer is set only by the answered query of a
\* register-device, for the connection that registered; a command is emitted
\* only by such a timer, to that connection; a pass selects no command twice
\* and a timer that has emitted is gone: no step of the verification, of a
\* disconnect or of an acknowledgment sets a delivery timer.
C19_NoAutomaticRetry ==
  /\ [][/\ \A t \in timers' \ timers : t.kind = "deliver" =>
              \E q \in queries : \E sel \in PendingCommands(q.dev) :
                DispatchQuery(q, sel) /\ t.pass = q.pass /\ t.conn = q.conn
         /\ \A e \in sent' \ sent : e.ev = "command" =>
              \E d \in timers :
                /\ FireDeliver(d) /\ e = CommandEvent(d)
                /\ passes[d.pass].ran = "found" /\ passes[d.pass].conn = e.to
                /\ \E r \in sent : r.ev = "registered" /\ r.to = e.to /\ r.pass = d.pass]_vars
  /\ [](\A p \in DOMAIN passes : Cardinality(Range(passes[p].sel)) = Len(passes[p].sel))
  /\ [](\A t \in timers : t.kind = "deliver" =>
          /\ CommandEvent(t) \notin sent
          /\ \A o \in timers : (o.kind = "deliver" /\ o.pass = t.pass /\ o.cmd = t.cmd) => o = t)

\* A command was emitted once, its acknowledgment reported a failure, the
\* connection closed and the verification found the room empty: no timer is
\* left and the command was not emitted again.
C19_Witness ==
  /\ nPass = 1
  /\ passes[1].ran = "found"
  /\ timers = {} /\ queries = {} /\ updates = {}
  /\ status[passes[1].conn] = "closed"
  /\ SocketsInRoom(passes[1].dev) = {}
  /\ now >= VerifyMs
  /\ \E i \in EmittedBy(1) : State(cmds[i]) = "failed"
  /\ Cardinality({ e \in sent : e.ev = "command" }) = Len(passes[1].sel)
\* C20: no connection is a member of the room of the Invalid id, and every
\* delivery timer belongs to a connection whose register-device was confirmed.
C20_OnlyValidatedRooms ==
  /\ \A c \in Conns : c \notin SocketsInRoom(Invalid)
  /\ \A t \in timers : t.kind = "deliver" =>
       \E r \in sent : r.ev = "registered" /\ r.to = t.conn /\ r.pass = t.pass
====
